---------------------------- MODULE Spec2Model ----------------------------
(***************************************************************************)
(* The payment transaction lifecycle of src/src/services/paymentService.ts *)
(* (PaymentService.processPayment, refundPayment, getPaymentHistory) over  *)
(* the data-access client of src/src/db/client.ts.                         *)
(*                                                                         *)
(* Every async method is cut at its await points: one action per stretch   *)
(* of code that runs without suspending.  Several calls may be in flight   *)
(* at once (one per element of Calls) and interleave at those points.      *)
(*                                                                         *)
(* The client in src/ checks the connection and shapes the value each      *)
(* method returns; the storage engine behind it ("Implementation would go  *)
(* here") and findById are not in the repository.  Those parts follow the  *)
(* data-store interface of the specification: insert assigns a fresh       *)
(* identifier and stores the record, update merges the partial record      *)
(* into the stored one and fails when there is none, findById returns the  *)
(* stored record or null.                                                  *)
(*                                                                         *)
(* Beside the lifecycle service the module has the gateway payment service *)
(* of src/unnamed/part_000 (processPayment of an order, processBulkRefunds *)
(* and its refundPayment) and UserService.createUser of                    *)
(* src/src/services/userService.ts, each with its own specification over   *)
(* the same client.                                                        *)
(***************************************************************************)
EXTENDS Integers, Sequences, FiniteSets, TLC

\* ------------------------------------------------------------------ bounds

\* The number of rows the payment_transactions table may hold.
MaxTx == 2

\* The number of calls that may be in flight at the same time.
MaxCalls == 2

\* The last instant of the clock read by new Date().
MaxTime == 1

\* The number of rows the payments table may hold.
MaxPayments == 2

\* The number of order identifiers one processBulkRefunds call may be given.
MaxBatch == 2

\* The number of rows the users table may hold.
MaxUsers == 2

Calls == 1..MaxCalls

TxIds == 1..(MaxTx + 1)

\* ------------------------------------------------------- optional values

\* An absent property (undefined) and a present one.
None == << >>

Some(v) == << v >>

\* ------------------------------------------------------------------ types

PaymentMethod == {"credit_card", "debit_card", "paypal", "bank_transfer"}

PaymentStatus == {"pending", "processing", "completed", "failed", "refunded"}

OrderIds == {"o1", "o2"}

\* A CreatePaymentInput object.
CreatePaymentInput(o, m, t) ==
  [orderId |-> o, amount |-> 100, currency |-> "USD", method |-> m, cardToken |-> t]

\* The inputs tried: every method a caller may pass, a card method with a
\* token, without one and with the empty one, and both orders.
Inputs ==
  { CreatePaymentInput("o1", "credit_card", Some("tok_1")),
    CreatePaymentInput("o1", "credit_card", None),
    CreatePaymentInput("o2", "debit_card", Some("")),
    CreatePaymentInput("o2", "debit_card", Some("tok_1")),
    CreatePaymentInput("o2", "paypal", None),
    CreatePaymentInput("o1", "bank_transfer", None),
    CreatePaymentInput("o2", "bitcoin", None) }

\* A PaymentTransaction object; every property is None or Some(value).
Fields ==
  {"id", "orderId", "amount", "currency", "method", "status", "createdAt",
   "completedAt", "errorMessage"}

EmptyObject == [f \in Fields |-> None]

\* null, as returned by findById for a missing row.
Null == [f \in Fields |-> None]

\* { ...base, ...data }: the properties present in data override base.
Spread(base, data) == [f \in Fields |-> IF data[f] # None THEN data[f] ELSE base[f]]

\* ------------------------------------------------------------- error text

ErrNotConnected == "Database not connected"

ErrCardToken == "Card token required for card payments"

ErrUnsupported(m) == "Unsupported payment method: " \o m

ErrNotFound == "Transaction not found"

ErrNotCompleted == "Can only refund completed transactions"

ErrNoRecord == "Record not found"

\* ------------------------------------------------------------------ state

VARIABLES
  connected,   \* DatabaseClient.connected
  rows,        \* the payment_transactions table, in insertion order
  now,         \* the clock new Date() reads
  call,        \* the calls in flight, one per element of Calls
  last,        \* what the step just taken gave a caller, if it finished a call
  orders,      \* the orders table, by order identifier
  payments,    \* the payments table of the gateway service, in insertion order
  pay,         \* the gateway processPayment call in flight, if any
  bulk,        \* the processBulkRefunds call and the refunds it started
  users,       \* the users table, in insertion order
  signup       \* the createUser calls in flight, one per element of Calls

vars ==
  << connected, rows, now, call, last, orders, payments, pay, bulk, users, signup >>

\* The state of the gateway payment service and of the user service.
gatewayVars == << orders, payments, pay, bulk >>

userVars == << users, signup >>

\* The state of the transaction lifecycle service.
lifecycleVars == << rows, now, call >>

\* A call not started: its locals are unset.
IdleCall ==
  [op |-> "none", pc |-> "idle", input |-> None, transactionId |-> 0,
   transaction |-> Null, caught |-> None, result |-> Null, writes |-> 0]

\* The step just taken finished no call.
NoOutcome ==
  [op |-> "none", outcome |-> "none", error |-> None, result |-> Null,
   history |-> << >>, transactionId |-> 0, orderId |-> None, again |-> FALSE,
   success |-> None, writes |-> 0]

\* No gateway processPayment call in flight: its parameters and locals unset.
IdlePay ==
  [pc |-> "idle", orderId |-> "", amount |-> 0,
   paymentMethod |-> [type |-> "", cardNumber |-> None],
   order |-> None, result |-> None]

\* No processBulkRefunds call in flight and no refund started.
IdleBulk == [pc |-> "idle", refunds |-> << >>]

\* A createUser call not started.
IdleSignup == [pc |-> "idle", email |-> "", existing |-> None]

\* The orders table the services start with: one pending order.
SeedOrders == [o \in {"o1"} |-> [total |-> 100, status |-> "pending"]]

Init ==
  /\ connected = FALSE
  /\ rows = << >>
  /\ now = 0
  /\ call = [c \in Calls |-> IdleCall]
  /\ last = NoOutcome
  /\ orders = SeedOrders
  /\ payments = << >>
  /\ pay = IdlePay
  /\ bulk = IdleBulk
  /\ users = << >>
  /\ signup = [u \in Calls |-> IdleSignup]

\* --------------------------------------------------- the data-access client

\* ensureConnected: passes when connected, throws ErrNotConnected otherwise.
ensureConnected(conn) == conn = TRUE

\* The identifier the storage engine assigns to the next inserted row: one no
\* stored row has.  (client.ts:40 writes the literal 'generated-id' in the
\* place of the identifier the missing engine generates.)
GeneratedId(table) == Len(table) + 1

\* The identifier client.ts:40 itself writes into every inserted record, the
\* literal 'generated-id'.
GeneratedIdLiteral == 1

\* insert: the value returned, { id: <the generated identifier>, ...data }.
insert(id, data) == Spread([EmptyObject EXCEPT !.id = Some(id)], data)

\* update: the value returned, { id, ...data }.
update(id, data) == Spread([EmptyObject EXCEPT !.id = Some(id)], data)

\* The storage engine: the row stored under an identifier, if any.
Exists(table, id) == id \in 1..Len(table)

findById(table, id) == IF Exists(table, id) THEN table[id] ELSE Null

\* The storage engine: the table after an insert and after an update by id.
StoreInsert(table, record) == Append(table, record)

StoreUpdate(table, id, data) == [table EXCEPT ![id] = Spread(@, data)]

\* findMany: the rows having every criterion as a column with that value, in
\* insertion order; no call of the service passes options.
Matches(row, criteria) ==
  \A k \in DOMAIN criteria : k \in Fields /\ row[k] = Some(criteria[k])

RECURSIVE Filter(_, _)
Filter(table, criteria) ==
  IF table = << >> THEN << >>
  ELSE IF Matches(Head(table), criteria)
       THEN << Head(table) >> \o Filter(Tail(table), criteria)
       ELSE Filter(Tail(table), criteria)

findMany(table, criteria, options) == Filter(table, criteria)

\* ------------------------------------------------------- PaymentService

\* Mutant of PendingData: the new record already carries completedAt.
PendingDataWithCompletedAt(input, t) ==
  [EmptyObject EXCEPT !.orderId = Some(input.orderId),
                      !.amount = Some(input.amount),
                      !.currency = Some(input.currency),
                      !.method = Some(input.method),
                      !.status = Some("pending"),
                      !.createdAt = Some(t),
                      !.completedAt = Some(t)]

\* The record processPayment inserts.
PendingData(input, t) ==
  [EmptyObject EXCEPT !.orderId = Some(input.orderId),
                      !.amount = Some(input.amount),
                      !.currency = Some(input.currency),
                      !.method = Some(input.method),
                      !.status = Some("pending"),
                      !.createdAt = Some(t)]

\* Mutant of CompletedData: completedAt is left out of the update.
CompletedDataNoTimestamp(t) == [EmptyObject EXCEPT !.status = Some("completed")]

\* Mutant of CompletedData: the update also writes an error message.
CompletedDataWithErrorMessage(t) ==
  [EmptyObject EXCEPT !.status = Some("completed"), !.completedAt = Some(t),
                      !.errorMessage = Some("")]

\* Mutant of FailedData: the error message is left out of the update.
FailedDataNoMessage(message) == [EmptyObject EXCEPT !.status = Some("failed")]

\* Mutant of RefundedData: the update writes the status the record had.
RefundedDataStaysCompleted == [EmptyObject EXCEPT !.status = Some("completed")]

\* The partial records of the three updates.
CompletedData(t) ==
  [EmptyObject EXCEPT !.status = Some("completed"), !.completedAt = Some(t)]

FailedData(message) ==
  [EmptyObject EXCEPT !.status = Some("failed"), !.errorMessage = Some(message)]

RefundedData == [EmptyObject EXCEPT !.status = Some("refunded")]

\* !cardToken: undefined and the empty string are both falsy.
CardTokenMissing(cardToken) == cardToken = None \/ cardToken = Some("")

\* processCardPayment: None when it completes, Some(message) when it throws.
processCardPayment(cardToken) ==
  IF CardTokenMissing(cardToken) THEN Some(ErrCardToken) ELSE None

\* executePayment: the switch over input.method.
executePayment(input) ==
  CASE input.method \in {"credit_card", "debit_card"} -> processCardPayment(input.cardToken)
    [] input.method = "paypal" -> None
    [] input.method = "bank_transfer" -> None
    [] OTHER -> Some(ErrUnsupported(input.method))

\* Mutants of refundPayment's guards: the null check never fires; the status
\* check lets every finished record through; the status check is missing.
TransactionMissingNever(transaction) == FALSE

RefundAllowedUnlessPending(transaction) == transaction.status # Some("pending")

RefundAllowedAlways(transaction) == TRUE

\* refundPayment's two guards on the record findById returned.
TransactionMissing(transaction) == transaction = Null

RefundAllowed(transaction) == transaction.status = Some("completed")



\* -------------------------------------------------------- calls in flight

\* A new call takes the first slot that holds no call in flight.
Free(c) ==
  /\ call[c].pc = "idle"
  /\ \A d \in Calls : d < c => call[d].pc # "idle"

\* Some call in flight works on the transaction with this identifier.
InFlightOn(id) ==
  \E c \in Calls :
    \/ call[c].op = "processPayment" /\ call[c].transaction.id = Some(id)
    \/ call[c].op = "refundPayment" /\ call[c].transactionId = id

\* What the caller of a finished call gets: a value or an error.
Returned(k, value) ==
  [NoOutcome EXCEPT !.op = k.op, !.outcome = "returned", !.result = value,
                    !.transactionId = k.transactionId, !.writes = k.writes]

Raised(k, message) ==
  [NoOutcome EXCEPT !.op = k.op, !.outcome = "raised", !.error = Some(message),
                    !.transactionId = k.transactionId, !.writes = k.writes]

\* The call in slot c ends: the slot is released, the caller gets the outcome.
Finish(c, outcome) ==
  /\ call' = [call EXCEPT ![c] = IdleCall]
  /\ last' = outcome
  /\ UNCHANGED << gatewayVars, userVars >>

\* The call in slot c goes on with its locals changed.
Continue(c, k) ==
  /\ call' = [call EXCEPT ![c] = k]
  /\ last' = NoOutcome
  /\ UNCHANGED << gatewayVars, userVars >>

\* -------------------------------------------------------------- actions

\* DatabaseClient.connect
Connect ==
  /\ connected' = TRUE
  /\ last' = NoOutcome
  /\ UNCHANGED << lifecycleVars, gatewayVars, userVars >>

\* DatabaseClient.disconnect
Disconnect ==
  /\ connected' = FALSE
  /\ last' = NoOutcome
  /\ UNCHANGED << lifecycleVars, gatewayVars, userVars >>

\* Time passes between two readings of the clock.
Tick ==
  /\ now < MaxTime
  /\ now' = now + 1
  /\ last' = NoOutcome
  /\ UNCHANGED << connected, rows, call, gatewayVars, userVars >>

\* processPayment up to the await of db.insert.
ProcessPaymentInsert(c, input) ==
  /\ Free(c)
  /\ LET k == [IdleCall EXCEPT !.op = "processPayment", !.input = Some(input)]
     IN IF ~ensureConnected(connected)
        THEN /\ Finish(c, Raised(k, ErrNotConnected))
             /\ UNCHANGED rows
        ELSE /\ Len(rows) < MaxTx
             /\ LET transaction == insert(GeneratedId(rows), PendingData(input, now))
                IN /\ rows' = StoreInsert(rows, transaction)
                   /\ Continue(c, [k EXCEPT !.pc = "execute",
                                            !.transaction = transaction,
                                            !.transactionId = transaction.id[1],
                                            !.writes = 1])
  /\ UNCHANGED << connected, now >>

\* processPayment up to the await of db.insert, when insert gives the record
\* the identifier written in client.ts:40 and not one the engine generates.
ProcessPaymentInsertLiteralId(c, input) ==
  /\ Free(c)
  /\ LET k == [IdleCall EXCEPT !.op = "processPayment", !.input = Some(input)]
     IN IF ~ensureConnected(connected)
        THEN /\ Finish(c, Raised(k, ErrNotConnected))
             /\ UNCHANGED rows
        ELSE /\ Len(rows) < MaxTx
             /\ LET transaction == insert(GeneratedIdLiteral, PendingData(input, now))
                IN /\ rows' = StoreInsert(rows, transaction)
                   /\ Continue(c, [k EXCEPT !.pc = "execute",
                                            !.transaction = transaction,
                                            !.transactionId = transaction.id[1],
                                            !.writes = 1])
  /\ UNCHANGED << connected, now >>

\* The try block up to the end of executePayment.
ProcessPaymentExecute(c) ==
  /\ call[c].op = "processPayment" /\ call[c].pc = "execute"
  /\ LET thrown == executePayment(call[c].input[1])
     IN IF thrown = None
        THEN Continue(c, [call[c] EXCEPT !.pc = "complete"])
        ELSE Continue(c, [call[c] EXCEPT !.pc = "catch", !.caught = thrown])
  /\ UNCHANGED << connected, rows, now >>

\* db.update(..., { status: 'completed', completedAt: new Date() }).
ProcessPaymentComplete(c) ==
  /\ call[c].op = "processPayment" /\ call[c].pc = "complete"
  /\ LET id == call[c].transaction.id[1]
     IN IF ~ensureConnected(connected)
        THEN /\ Continue(c, [call[c] EXCEPT !.pc = "catch",
                                            !.caught = Some(ErrNotConnected)])
             /\ UNCHANGED rows
        ELSE IF ~Exists(rows, id)
        THEN /\ Continue(c, [call[c] EXCEPT !.pc = "catch",
                                            !.caught = Some(ErrNoRecord)])
             /\ UNCHANGED rows
        ELSE /\ rows' = StoreUpdate(rows, id, CompletedData(now))
             /\ Continue(c, [call[c] EXCEPT !.pc = "return",
                                            !.result = update(id, CompletedData(now)),
                                            !.writes = @ + 1])
  /\ UNCHANGED << connected, now >>

\* logger.info('Payment completed'); return updated.
ProcessPaymentReturn(c) ==
  /\ call[c].op = "processPayment" /\ call[c].pc = "return"
  /\ Finish(c, Returned(call[c], call[c].result))
  /\ UNCHANGED << connected, rows, now >>

\* The catch block: db.update(..., { status: 'failed', errorMessage }).
ProcessPaymentCatch(c) ==
  /\ call[c].op = "processPayment" /\ call[c].pc = "catch"
  /\ LET id == call[c].transaction.id[1]
     IN IF ~ensureConnected(connected)
        THEN /\ Finish(c, Raised(call[c], ErrNotConnected))
             /\ UNCHANGED rows
        ELSE IF ~Exists(rows, id)
        THEN /\ Finish(c, Raised(call[c], ErrNoRecord))
             /\ UNCHANGED rows
        ELSE /\ rows' = StoreUpdate(rows, id, FailedData(call[c].caught[1]))
             /\ Continue(c, [call[c] EXCEPT !.pc = "rethrow", !.writes = @ + 1])
  /\ UNCHANGED << connected, now >>

\* throw error, at the end of the catch block.
ProcessPaymentRethrow(c) ==
  /\ call[c].op = "processPayment" /\ call[c].pc = "rethrow"
  /\ Finish(c, Raised(call[c], call[c].caught[1]))
  /\ UNCHANGED << connected, rows, now >>

\* refundPayment up to the await of db.findById.
RefundPaymentFind(c, transactionId) ==
  /\ Free(c)
  /\ LET k == [IdleCall EXCEPT !.op = "refundPayment", !.transactionId = transactionId]
     IN IF ~ensureConnected(connected)
        THEN Finish(c, Raised(k, ErrNotConnected))
        ELSE Continue(c, [k EXCEPT !.pc = "check",
                                   !.transaction = findById(rows, transactionId)])
  /\ UNCHANGED << connected, rows, now >>

\* The two guards, then db.update(..., { status: 'refunded' }).
RefundPaymentUpdate(c) ==
  /\ call[c].op = "refundPayment" /\ call[c].pc = "check"
  /\ LET id == call[c].transactionId
     IN IF TransactionMissing(call[c].transaction)
        THEN /\ Finish(c, Raised(call[c], ErrNotFound))
             /\ UNCHANGED rows
        ELSE IF ~RefundAllowed(call[c].transaction)
        THEN /\ Finish(c, Raised(call[c], ErrNotCompleted))
             /\ UNCHANGED rows
        ELSE IF ~ensureConnected(connected)
        THEN /\ Finish(c, Raised(call[c], ErrNotConnected))
             /\ UNCHANGED rows
        ELSE IF ~Exists(rows, id)
        THEN /\ Finish(c, Raised(call[c], ErrNoRecord))
             /\ UNCHANGED rows
        ELSE /\ rows' = StoreUpdate(rows, id, RefundedData)
             /\ Continue(c, [call[c] EXCEPT !.pc = "return",
                                            !.result = update(id, RefundedData),
                                            !.writes = @ + 1])
  /\ UNCHANGED << connected, now >>

\* logger.info('Refund completed'); return updated.
RefundPaymentReturn(c) ==
  /\ call[c].op = "refundPayment" /\ call[c].pc = "return"
  /\ Finish(c, Returned(call[c], call[c].result))
  /\ UNCHANGED << connected, rows, now >>

\* The step before this one returned the history of the same order.
JustReturnedHistoryOf(orderId) ==
  /\ last.op = "getPaymentHistory"
  /\ last.outcome = "returned"
  /\ last.orderId = Some(orderId)

\* Mutant of getPaymentHistory: the read marks every stored record with the
\* order it was asked for.
getPaymentHistoryMarkingRows(c, orderId) ==
  /\ Free(c)
  /\ LET k == [IdleCall EXCEPT !.op = "getPaymentHistory"]
         criteria == [where |-> [orderId |-> orderId],
                      orderBy |-> [createdAt |-> "desc"]]
     IN IF ~ensureConnected(connected)
        THEN Finish(c, Raised(k, ErrNotConnected)) /\ rows' = rows
        ELSE /\ Finish(c, [Returned(k, Null) EXCEPT
                             !.orderId = Some(orderId),
                             !.again = JustReturnedHistoryOf(orderId),
                             !.history = findMany(rows, criteria, None)])
             /\ rows' = [id \in 1..Len(rows) |->
                           [rows[id] EXCEPT !.orderId = Some(orderId)]]
  /\ UNCHANGED << connected, now >>

\* getPaymentHistory: the object { where, orderBy } is passed as the criteria
\* argument of findMany, and no options.
getPaymentHistory(c, orderId) ==
  /\ Free(c)
  /\ LET k == [IdleCall EXCEPT !.op = "getPaymentHistory"]
         criteria == [where |-> [orderId |-> orderId],
                      orderBy |-> [createdAt |-> "desc"]]
     IN IF ~ensureConnected(connected)
        THEN Finish(c, Raised(k, ErrNotConnected))
        ELSE Finish(c, [Returned(k, Null) EXCEPT
                          !.orderId = Some(orderId),
                          !.again = JustReturnedHistoryOf(orderId),
                          !.history = findMany(rows, criteria, None)])
  /\ UNCHANGED << connected, rows, now >>

\* ----------------------------------------------------- the audit logger

\* What Logger.log throws when JSON.stringify cannot serialise the context.
ErrLogger == "Do not know how to serialize a BigInt"

\* logger.debug of a payment strategy throws (lines 180, 185, 190): the
\* strategy had passed its checks, the throw lands in processPayment's catch.
ProcessPaymentDebugRaises(c) ==
  /\ call[c].op = "processPayment" /\ call[c].pc = "execute"
  /\ executePayment(call[c].input[1]) = None
  /\ Continue(c, [call[c] EXCEPT !.pc = "catch", !.caught = Some(ErrLogger)])
  /\ UNCHANGED << connected, rows, now >>

\* logger.info('Payment completed') throws (line 88): it is inside the try
\* block, after the update to completed, so the catch block runs.
ProcessPaymentLogRaises(c) ==
  /\ call[c].op = "processPayment" /\ call[c].pc = "return"
  /\ Continue(c, [call[c] EXCEPT !.pc = "catch", !.caught = Some(ErrLogger)])
  /\ UNCHANGED << connected, rows, now >>

\* logger.info('Refund completed') throws (line 133), after the update to
\* refunded: the call throws and returns no record.
RefundPaymentLogRaises(c) ==
  /\ call[c].op = "refundPayment" /\ call[c].pc = "return"
  /\ Finish(c, Raised(call[c], ErrLogger))
  /\ UNCHANGED << connected, rows, now >>

\* ------------------------------------------- the gateway payment service

\* The PaymentMethod objects tried: a card with its number, and a paypal
\* method, which has no cardNumber.
GatewayMethods ==
  { [type |-> "credit_card", cardNumber |-> Some("4242424242424242")],
    [type |-> "paypal", cardNumber |-> None] }

\* The amounts tried: the total of the seeded order and another one.
Amounts == {100, 50}

\* What the payment gateway answers to a charge or a refund request: the
\* charge went through, it was declined, or the request itself failed.
GatewayAnswers == {"success", "declined", "unreachable"}

ErrOrderNotFound == "Order not found"

ErrAmountMismatch == "Amount mismatch"

ErrFetchFailed == "fetch failed"

ErrUndefinedSlice == "Cannot read properties of undefined (reading 'slice')"

ErrNullTransactionId == "Cannot read properties of null (reading 'transactionId')"

\* db.query of the order by id: the stored order or null.
query(table, orderId) ==
  IF orderId \in DOMAIN table THEN Some(table[orderId]) ELSE None

\* db.findOne('payments', { orderId }): the identifier of the first payment
\* of the order, 0 for null.
RECURSIVE FirstPaymentOf(_, _, _)
FirstPaymentOf(table, orderId, id) ==
  IF id > Len(table) THEN 0
  ELSE IF table[id].orderId = orderId THEN id
       ELSE FirstPaymentOf(table, orderId, id + 1)

findOnePayment(table, orderId) == FirstPaymentOf(table, orderId, 1)

\* The gateway call ends and its caller gets the outcome.
PayFinish(outcome) ==
  /\ pay' = IdlePay
  /\ last' = outcome

PayReturned(success, message) ==
  [NoOutcome EXCEPT !.op = "gateway.processPayment", !.outcome = "returned",
                    !.success = Some(success), !.error = message]

PayRaised(message) ==
  [NoOutcome EXCEPT !.op = "gateway.processPayment", !.outcome = "raised",
                    !.error = Some(message)]

\* processPayment up to the await of db.query.
GatewayProcessPaymentQuery(orderId, amount, paymentMethod) ==
  /\ pay.pc = "idle"
  /\ Len(payments) < MaxPayments
  /\ IF ~ensureConnected(connected)
     THEN PayFinish(PayRaised(ErrNotConnected))
     ELSE /\ pay' = [IdlePay EXCEPT !.pc = "validate", !.orderId = orderId,
                                    !.amount = amount,
                                    !.paymentMethod = paymentMethod,
                                    !.order = query(orders, orderId)]
          /\ last' = NoOutcome
  /\ UNCHANGED << connected, lifecycleVars, orders, payments, bulk, userVars >>

\* The two checks on the order, then chargeCard up to the await of fetch.
GatewayProcessPaymentValidate ==
  /\ pay.pc = "validate"
  /\ IF pay.order = None
     THEN PayFinish(PayReturned(FALSE, Some(ErrOrderNotFound)))
     ELSE IF pay.amount # pay.order[1].total
          THEN PayFinish(PayReturned(FALSE, Some(ErrAmountMismatch)))
          ELSE /\ pay' = [pay EXCEPT !.pc = "charge"]
               /\ last' = NoOutcome
  /\ UNCHANGED << connected, lifecycleVars, orders, payments, bulk, userVars >>

\* The gateway answers the charge; when it went through, updateOrderStatus
\* sets the order to paid.
GatewayProcessPaymentCharged(answer) ==
  /\ pay.pc = "charge"
  /\ CASE answer = "unreachable" ->
            PayFinish(PayRaised(ErrFetchFailed)) /\ UNCHANGED orders
       [] answer = "declined" ->
            PayFinish(PayReturned(FALSE, None)) /\ UNCHANGED orders
       [] answer = "success" ->
            IF ~ensureConnected(connected)
            THEN PayFinish(PayRaised(ErrNotConnected)) /\ UNCHANGED orders
            ELSE /\ orders' = [orders EXCEPT ![pay.orderId].status = "paid"]
                 /\ pay' = [pay EXCEPT !.pc = "insert", !.result = Some(TRUE)]
                 /\ last' = NoOutcome
  /\ UNCHANGED << connected, lifecycleVars, payments, bulk, userVars >>

\* db.insert('payments', { ..., cardLastFour: cardNumber.slice(-4),
\* status: 'completed' }): the record is built, then stored.
GatewayProcessPaymentInsert ==
  /\ pay.pc = "insert"
  /\ IF pay.paymentMethod.cardNumber = None
     THEN PayFinish(PayRaised(ErrUndefinedSlice)) /\ UNCHANGED payments
     ELSE IF ~ensureConnected(connected)
          THEN PayFinish(PayRaised(ErrNotConnected)) /\ UNCHANGED payments
          ELSE /\ payments' = Append(payments,
                                [orderId |-> pay.orderId, amount |-> pay.amount,
                                 status |-> "completed"])
               /\ pay' = [pay EXCEPT !.pc = "return"]
               /\ last' = NoOutcome
  /\ UNCHANGED << connected, lifecycleVars, orders, bulk, userVars >>

\* return result
GatewayProcessPaymentReturn ==
  /\ pay.pc = "return"
  /\ PayFinish(PayReturned(pay.result[1], None))
  /\ UNCHANGED << connected, lifecycleVars, orders, payments, bulk, userVars >>

\* The batches of order identifiers tried, the same order twice included.
Batches ==
  UNION { [1..n -> {"o1", "o2"}] : n \in 1..MaxBatch }

\* A refundPayment call of the gateway service up to the await of
\* db.findOne, which has looked the payment up or found the store closed.
StartRefund(orderId) ==
  IF ~ensureConnected(connected)
  THEN [orderId |-> orderId, pc |-> "findOne", payment |-> 0,
        error |-> Some(ErrNotConnected)]
  ELSE [orderId |-> orderId, pc |-> "findOne",
        payment |-> findOnePayment(payments, orderId), error |-> None]

\* A refund call that has started and has neither returned nor thrown.
RefundInFlight(r) == r.pc \in {"findOne", "fetch", "update"}

InFlightRefunds == Cardinality({i \in 1..Len(bulk.refunds) : RefundInFlight(bulk.refunds[i])})

\* processBulkRefunds up to the await of Promise.all: orderIds.map has
\* called refundPayment for every identifier.
ProcessBulkRefunds(orderIds) ==
  /\ bulk.pc = "idle"
  /\ InFlightRefunds = 0
  /\ bulk' = [pc |-> "await",
              refunds |-> [i \in 1..Len(orderIds) |-> StartRefund(orderIds[i])]]
  /\ last' = NoOutcome
  /\ UNCHANGED << connected, lifecycleVars, orders, payments, pay, userVars >>

\* A refund goes on after db.findOne: payment.transactionId is read and the
\* refund request is sent.
GatewayRefundFetch(i) ==
  /\ i \in 1..Len(bulk.refunds)
  /\ bulk.refunds[i].pc = "findOne"
  /\ LET r == bulk.refunds[i]
     IN bulk' = [bulk EXCEPT !.refunds[i] =
                   IF r.error # None THEN [r EXCEPT !.pc = "failed"]
                   ELSE IF r.payment = 0
                        THEN [r EXCEPT !.pc = "failed",
                                       !.error = Some(ErrNullTransactionId)]
                        ELSE [r EXCEPT !.pc = "fetch"]]
  /\ last' = NoOutcome
  /\ UNCHANGED << connected, lifecycleVars, orders, payments, pay, userVars >>

\* The gateway has answered the refund request; the payment is set to
\* refunded whatever the answer says.
GatewayRefundUpdate(i, answer) ==
  /\ i \in 1..Len(bulk.refunds)
  /\ bulk.refunds[i].pc = "fetch"
  /\ LET r == bulk.refunds[i]
     IN CASE answer = "unreachable" ->
               /\ bulk' = [bulk EXCEPT !.refunds[i] =
                             [r EXCEPT !.pc = "failed", !.error = Some(ErrFetchFailed)]]
               /\ UNCHANGED payments
          [] ~ensureConnected(connected) /\ answer # "unreachable" ->
               /\ bulk' = [bulk EXCEPT !.refunds[i] =
                             [r EXCEPT !.pc = "failed", !.error = Some(ErrNotConnected)]]
               /\ UNCHANGED payments
          [] OTHER ->
               /\ payments' = [payments EXCEPT ![r.payment].status = "refunded"]
               /\ bulk' = [bulk EXCEPT !.refunds[i] = [r EXCEPT !.pc = "update"]]
  /\ last' = NoOutcome
  /\ UNCHANGED << connected, lifecycleVars, orders, pay, userVars >>

\* return { success: true }
GatewayRefundReturn(i) ==
  /\ i \in 1..Len(bulk.refunds)
  /\ bulk.refunds[i].pc = "update"
  /\ bulk' = [bulk EXCEPT !.refunds[i].pc = "done"]
  /\ last' = NoOutcome
  /\ UNCHANGED << connected, lifecycleVars, orders, payments, pay, userVars >>

\* Promise.all settles: rejected as soon as one refund has thrown, fulfilled
\* once all have returned.
ProcessBulkRefundsSettle ==
  /\ bulk.pc = "await"
  /\ \/ /\ \A i \in 1..Len(bulk.refunds) : bulk.refunds[i].pc = "done"
        /\ last' = [NoOutcome EXCEPT !.op = "processBulkRefunds",
                                     !.outcome = "returned"]
     \/ \E i \in 1..Len(bulk.refunds) :
          /\ bulk.refunds[i].pc = "failed"
          /\ last' = [NoOutcome EXCEPT !.op = "processBulkRefunds",
                                       !.outcome = "raised",
                                       !.error = bulk.refunds[i].error]
  /\ bulk' = [bulk EXCEPT !.pc = "idle"]
  /\ UNCHANGED << connected, lifecycleVars, orders, payments, pay, userVars >>

\* ------------------------------------------------------------ UserService

Emails == {"a@example.com", "b@example.com"}

ErrUserExists == "User already exists"

\* db.findOne('users', { email }): a stored user with the email, or null.
findOneUser(table, email) ==
  IF \E id \in 1..Len(table) : table[id].email = email
  THEN Some(table[CHOOSE id \in 1..Len(table) :
                    /\ table[id].email = email
                    /\ \A j \in 1..(id - 1) : table[j].email # email])
  ELSE None

\* A new createUser call takes the first slot that holds no call in flight.
FreeSignup(u) ==
  /\ signup[u].pc = "idle"
  /\ \A v \in Calls : v < u => signup[v].pc # "idle"

SignupsInFlight == Cardinality({u \in Calls : signup[u].pc # "idle"})

SignupFinish(u, outcome) ==
  /\ signup' = [signup EXCEPT ![u] = IdleSignup]
  /\ last' = outcome

SignupRaised(message) ==
  [NoOutcome EXCEPT !.op = "createUser", !.outcome = "raised",
                    !.error = Some(message)]

\* createUser up to the await of findByEmail.
CreateUserFind(u, email) ==
  /\ FreeSignup(u)
  /\ Len(users) + SignupsInFlight < MaxUsers
  /\ IF ~ensureConnected(connected)
     THEN SignupFinish(u, SignupRaised(ErrNotConnected))
     ELSE /\ signup' = [signup EXCEPT ![u] =
                          [pc |-> "check", email |-> email,
                           existing |-> findOneUser(users, email)]]
          /\ last' = NoOutcome
  /\ UNCHANGED << connected, lifecycleVars, gatewayVars, users >>

\* The test of the user found, then db.insert('users', ...).
CreateUserInsert(u) ==
  /\ signup[u].pc = "check"
  /\ IF signup[u].existing # None
     THEN SignupFinish(u, SignupRaised(ErrUserExists)) /\ UNCHANGED users
     ELSE IF ~ensureConnected(connected)
          THEN SignupFinish(u, SignupRaised(ErrNotConnected)) /\ UNCHANGED users
          ELSE /\ users' = Append(users, [id |-> GeneratedId(users),
                                          email |-> signup[u].email])
               /\ signup' = [signup EXCEPT ![u].pc = "return"]
               /\ last' = NoOutcome
  /\ UNCHANGED << connected, lifecycleVars, gatewayVars >>

\* return user
CreateUserReturn(u) ==
  /\ signup[u].pc = "return"
  /\ SignupFinish(u, [NoOutcome EXCEPT !.op = "createUser", !.outcome = "returned"])
  /\ UNCHANGED << connected, lifecycleVars, gatewayVars, users >>

\* ------------------------------------------------------- specifications

\* The calls the service receives.  The callers keep to one call in flight
\* for each transaction identifier: a refund starts only when no other call
\* works on that transaction, and no refund is waiting on the identifier a
\* new transaction gets.
\* The steps of the calls in flight.
Resume ==
  \/ \E c \in Calls : ProcessPaymentExecute(c)
  \/ \E c \in Calls : ProcessPaymentComplete(c)
  \/ \E c \in Calls : ProcessPaymentReturn(c)
  \/ \E c \in Calls : ProcessPaymentCatch(c)
  \/ \E c \in Calls : ProcessPaymentRethrow(c)
  \/ \E c \in Calls : RefundPaymentUpdate(c)
  \/ \E c \in Calls : RefundPaymentReturn(c)

Operation ==
  \/ \E c \in Calls, input \in Inputs :
       ~InFlightOn(GeneratedId(rows)) /\ ProcessPaymentInsert(c, input)
  \/ Resume
  \/ \E c \in Calls, transactionId \in TxIds :
       ~InFlightOn(transactionId) /\ RefundPaymentFind(c, transactionId)
  \/ \E c \in Calls, orderId \in OrderIds : getPaymentHistory(c, orderId)
  \/ Tick

\* The store stays connected once initializeApp has connected it.
Next == Connect \/ Operation

Spec == Init /\ [][Next]_vars

\* The connection may also be closed, and opened again, at any await point.
NextFault == Connect \/ Disconnect \/ Operation

SpecFault == Init /\ [][NextFault]_vars

\* The same calls over the client as src/db/client.ts has it: every insert
\* returns the identifier 'generated-id', and a lookup or an update by that
\* identifier reaches the first record stored under it.
OperationLiteralId ==
  \/ \E c \in Calls, input \in Inputs :
       ~InFlightOn(GeneratedIdLiteral) /\ ProcessPaymentInsertLiteralId(c, input)
  \/ Resume
  \/ \E c \in Calls, transactionId \in TxIds :
       ~InFlightOn(transactionId) /\ RefundPaymentFind(c, transactionId)
  \/ \E c \in Calls, orderId \in OrderIds : getPaymentHistory(c, orderId)
  \/ Tick

NextLiteralId == Connect \/ OperationLiteralId

SpecLiteralId == Init /\ [][NextLiteralId]_vars

\* The same calls when the callers do not keep refunds of one transaction
\* apart: a refund may start while another call works on the transaction.
OperationRace ==
  \/ \E c \in Calls, input \in Inputs :
       ~InFlightOn(GeneratedId(rows)) /\ ProcessPaymentInsert(c, input)
  \/ Resume
  \/ \E c \in Calls, transactionId \in TxIds : RefundPaymentFind(c, transactionId)
  \/ \E c \in Calls, orderId \in OrderIds : getPaymentHistory(c, orderId)
  \/ Tick

NextRace == Connect \/ OperationRace

SpecRace == Init /\ [][NextRace]_vars

\* The transaction lifecycle with a logger whose calls may throw.
NextLogger ==
  \/ Connect
  \/ Operation
  \/ \E c \in Calls : ProcessPaymentDebugRaises(c)
  \/ \E c \in Calls : ProcessPaymentLogRaises(c)
  \/ \E c \in Calls : RefundPaymentLogRaises(c)

SpecLogger == Init /\ [][NextLogger]_vars

\* The gateway payment service: payments of orders and bulk refunds, over a
\* store whose connection may close at any await point.
NextGateway ==
  \/ Connect
  \/ Disconnect
  \/ \E orderId \in OrderIds, amount \in Amounts, paymentMethod \in GatewayMethods :
       GatewayProcessPaymentQuery(orderId, amount, paymentMethod)
  \/ GatewayProcessPaymentValidate
  \/ \E answer \in GatewayAnswers : GatewayProcessPaymentCharged(answer)
  \/ GatewayProcessPaymentInsert
  \/ GatewayProcessPaymentReturn
  \/ \E orderIds \in Batches : ProcessBulkRefunds(orderIds)
  \/ \E i \in 1..MaxBatch : GatewayRefundFetch(i)
  \/ \E i \in 1..MaxBatch, answer \in GatewayAnswers : GatewayRefundUpdate(i, answer)
  \/ \E i \in 1..MaxBatch : GatewayRefundReturn(i)
  \/ ProcessBulkRefundsSettle

SpecGateway == Init /\ [][NextGateway]_vars

\* The user service: createUser calls that interleave at their awaits.
NextUsers ==
  \/ Connect
  \/ Disconnect
  \/ \E u \in Calls, email \in Emails : CreateUserFind(u, email)
  \/ \E u \in Calls : CreateUserInsert(u)
  \/ \E u \in Calls : CreateUserReturn(u)

SpecUsers == Init /\ [][NextUsers]_vars

\* ----------------------------------------------------------------- claims

Status(id) == rows[id].status

Stored(id) == Exists(rows, id)

\* The step finishes the call in slot c.
Finishes(c) == call[c].pc # "idle" /\ call'[c].pc = "idle"

C2_MissingCredentialPersistsNothing ==
  (last.op = "processPayment" /\ last.error = Some(ErrCardToken)) =>
    (last.writes = 0 /\ last.transactionId = 0)

\* C3: a processPayment that fails for a method outside the enumeration has
\* issued no insert and no update to the transaction store.
C3_UnsupportedMethodPersistsNothing ==
  (last.op = "processPayment" /\ last.error = Some(ErrUnsupported("bitcoin"))) =>
    last.writes = 0

RefundStarts(c, id) ==
  /\ call[c].pc = "idle"
  /\ call'[c].op = "refundPayment" /\ call'[c].pc = "check"
  /\ call'[c].transactionId = id

\* The step resumes the refundPayment of id in slot c after findById.
RefundResumes(c, id) ==
  /\ call[c].op = "refundPayment" /\ call[c].pc = "check"
  /\ call[c].transactionId = id
  /\ call'[c] # call[c]

\* The execution strategy fails for the input of the call in slot c.
StrategyFails(c) ==
  /\ call[c].op = "processPayment"
  /\ call[c].input # None
  /\ executePayment(call[c].input[1]) # None

\* The stored record is failed, with this non-empty message, and not completed.
StoredAsFailed(table, id, message) ==
  /\ Exists(table, id)
  /\ table[id].status = Some("failed")
  /\ table[id].errorMessage = message
  /\ table[id].errorMessage \notin {None, Some("")}
  /\ table[id].completedAt = None

C6_FinishedCallLeavesFinalState ==
  (last.op = "processPayment" /\ last.transactionId # 0) =>
    /\ last.outcome = "returned" => Status(last.transactionId) = Some("completed")
    /\ last.outcome = "raised" => Status(last.transactionId) = Some("failed")

\* C7: refundPayment on a stored transaction that is not completed raises
\* the invalid-transition error and writes nothing: the table is the same
\* before and after.
C7_RefundRejectedWithoutWrite ==
  [][\A c \in Calls, id \in TxIds :
       (RefundResumes(c, id) /\ Stored(id) /\ Status(id) # Some("completed")) =>
         /\ Finishes(c)
         /\ last'.outcome = "raised"
         /\ last'.error = Some(ErrNotCompleted)
         /\ last'.writes = 0
         /\ rows' = rows]_vars

\* C7 witness: the refund of a failed record has just been rejected.
C7_Witness ==
  /\ last.op = "refundPayment" /\ last.error = Some(ErrNotCompleted)
  /\ Stored(last.transactionId)
  /\ Status(last.transactionId) = Some("failed")

\* C8: refundPayment on an identifier with no stored transaction raises the
\* not-found error and writes nothing.
C8_RefundOfMissingIsNotFound ==
  [][\A c \in Calls, id \in TxIds :
       /\ (RefundStarts(c, id) /\ ~Stored(id)) =>
            (call'[c].transaction = Null /\ rows' = rows)
       /\ (RefundResumes(c, id) /\ call[c].transaction = Null) =>
            /\ Finishes(c)
            /\ last'.outcome = "raised"
            /\ last'.error = Some(ErrNotFound)
            /\ last'.writes = 0
            /\ rows' = rows]_vars

\* C8 witness: the refund of an identifier that is not stored has just failed.
C8_Witness ==
  /\ last.op = "refundPayment" /\ last.error = Some(ErrNotFound)
  /\ ~Stored(last.transactionId)

IsHistoryOf(history, orderId) ==
  /\ \A i \in 1..Len(history) :
       /\ history[i].orderId = Some(orderId)
       /\ \E id \in 1..Len(rows) : rows[id] = history[i]
  /\ \A id \in 1..Len(rows) :
       rows[id].orderId = Some(orderId) =>
         Cardinality({i \in 1..Len(history) : history[i].id = Some(id)}) = 1
  /\ \A i, j \in 1..Len(history) :
       i < j => history[i].createdAt[1] >= history[j].createdAt[1]

\* C12: a getPaymentHistory call that returns gives exactly the stored
\* records of its order, the most recent first (so the empty sequence for an
\* order without records).
C12_HistoryIsTheOrdersRecords ==
  (last.op = "getPaymentHistory" /\ last.outcome = "returned") =>
    IsHistoryOf(last.history, last.orderId[1])

\* C13: a getPaymentHistory call changes no stored record, and a call that
\* directly follows a call for the same order returns the same sequence.
C13_HistoryReadOnlyAndRepeatable ==
  [][last'.op = "getPaymentHistory" =>
       /\ rows' = rows
       /\ (last'.outcome = "returned" /\ last'.again) =>
            last'.history = last.history]_vars

\* C13 witness: the history of an order has just been returned a second time
\* in a row, with records in the store.
C13_Witness ==
  /\ last.op = "getPaymentHistory" /\ last.outcome = "returned"
  /\ last.again
  /\ rows # << >>

\* The step is one of the processPayment call in slot c.
ProcessPaymentSteps(c) ==
  /\ call'[c] # call[c]
  /\ "processPayment" \in {call[c].op, call'[c].op}

\* C14: the step of processPayment that stores a record adds exactly one
\* record, whose id no stored record has, and leaves the others as they
\* are; every later step of the call changes at most the record with the id
\* it was given; a failed record is never changed again.
C14_OneNewRecordWithFreshId ==
  [][\A c \in Calls :
       ProcessPaymentSteps(c) =>
         /\ Len(rows') \in {Len(rows), Len(rows) + 1}
         /\ Len(rows') = Len(rows) + 1 =>
              /\ \A id \in 1..Len(rows) :
                   rows'[id] = rows[id] /\ rows[id].id # rows'[Len(rows')].id
         /\ Len(rows') = Len(rows) =>
              /\ \A id \in 1..Len(rows) :
                   /\ rows'[id] # rows[id] => rows[id].id = call[c].transaction.id
                   /\ Status(id) = Some("failed") => rows'[id] = rows[id]]_vars

\* C15: the refundPayment calls in flight stay within a fixed limit.  A
\* limit that does not grow with the batch is below the size of some batch;
\* the batches tried have up to MaxBatch identifiers, so the limit is taken
\* below MaxBatch: the largest batch is never in flight all at once.
C15_BulkRefundsWithinLimit == InFlightRefunds <= MaxBatch - 1

\* C16: a logger call that throws changes neither what a call gives its
\* caller nor what is stored: no call raises the logger's error, no record
\* carries it as errorMessage, and no completed record becomes failed.
C16_LoggerNeverAffectsOutcome ==
  /\ [](last.error # Some(ErrLogger))
  /\ [](\A id \in 1..Len(rows) : rows[id].errorMessage # Some(ErrLogger))
  /\ [][\A id \in 1..Len(rows) :
          Status(id) = Some("completed") => rows'[id].status # Some("failed")]_vars

\* The properties a record gets when it is created.
CreationFields == {"id", "orderId", "amount", "currency", "method", "createdAt"}

\* C17: no step changes a creation property of a stored record, and the
\* record a processPayment or refundPayment call returns has the creation
\* properties of the stored record.
C17_CreationFieldsNeverChange ==
  /\ [][\A id \in 1..Len(rows), f \in CreationFields :
          rows'[id][f] = rows[id][f]]_vars
  /\ []((last.op \in {"processPayment", "refundPayment"} /\ last.outcome = "returned") =>
          \A f \in CreationFields :
            last.result[f] = findById(rows, last.transactionId)[f])

\* C18: of the refundPayment calls on one transaction at most one writes the
\* refunded transition and returns the record: a refund that goes on to
\* return a record finds the stored record completed when it writes, and a
\* refund that finds it refunded by then raises the invalid-transition error.
C18_AtMostOneRefundWrites ==
  [][\A c \in Calls, id \in TxIds :
       (RefundResumes(c, id) /\ Stored(id)) =>
         /\ call'[c].pc = "return" => Status(id) = Some("completed")
         /\ Status(id) = Some("refunded") =>
              last' = Raised(call[c], ErrNotCompleted)]_vars

\* The payments table holds a record of the order that was stored as
\* completed (a later refund may have set it to refunded).
HasPaymentRecord(orderId) ==
  \E id \in 1..Len(payments) :
    /\ payments[id].orderId = orderId
    /\ payments[id].status \in {"completed", "refunded"}

\* C19: the gateway processPayment sets an order to paid, and stores a
\* payment record (as completed), only when the order was found, the amount
\* is its total and the charge went through; and whenever no such call is in
\* flight, every paid order has its payment record.
C19_PaidOrderHasPaymentRecord ==
  /\ [][(orders' # orders \/ Len(payments') > Len(payments)) =>
          /\ pay.order # None
          /\ pay.amount = pay.order[1].total
          /\ pay'.result = Some(TRUE)
          /\ \A o \in DOMAIN orders :
               orders'[o] # orders[o] => o = pay.orderId /\ orders'[o].status = "paid"
          /\ Len(payments') > Len(payments) =>
               payments'[Len(payments')].status = "completed"]_vars
  /\ [](pay.pc = "idle" =>
          \A o \in DOMAIN orders :
            orders[o].status = "paid" => HasPaymentRecord(o))

\* A user with this email is stored.
EmailStored(email) == \E id \in 1..Len(users) : users[id].email = email

\* C20: a createUser call that goes on after its lookup while a user with
\* its email is stored raises 'User already exists' and inserts nothing, and
\* the users table never holds two users with one email.
C20_OneUserPerEmail ==
  /\ [][\A u \in Calls :
          (signup[u].pc = "check" /\ signup'[u] # signup[u]
             /\ EmailStored(signup[u].email)) =>
            /\ last' = SignupRaised(ErrUserExists)
            /\ users' = users]_vars
  /\ [](\A i, j \in 1..Len(users) :
          i # j => users[i].email # users[j].email)

=============================================================================
